---- MODULE Spec2Model ----
(***************************************************************************)
(* Document ingestion and extraction pipeline (documentProcessor.js).      *)
(*                                                                         *)
(* Strings on which the code does prefix / substring tests (mime types,    *)
(* the MAX_FILE_SIZE_MB value) are sequences of tokens, one token per      *)
(* run of characters, so that startsWith, includes, split and toLowerCase  *)
(* are computed and not assumed.  Error messages are sequences of string   *)
(* pieces (template literals are concatenations).  Confidence is kept in   *)
(* hundredths (0.95 is 95).  A rational number is a record [n, d]; 0/0 is  *)
(* NaN.                                                                    *)
(***************************************************************************)
EXTENDS Integers, Sequences, FiniteSets, TLC

VARIABLES env, nextId, job, batch, vfile, venv, vres, vcall, tbuf, tres, tdoc,
          ltext, llang, sret

vars ==
  <<env, nextId, job, batch, vfile, venv, vres, vcall, tbuf, tres, tdoc,
    ltext, llang, sret>>

(* ------------------------------ bounds -------------------------------- *)

\* longest batch handed to processDocuments
MaxFiles == 3
\* number of processDocument invocations in one run (documentIds issued)
MaxJobs == 3
\* longest buffer given to the plain-text path on its own
MaxBufLen == 4
\* most words of a text given to detectLanguage on its own
MaxWords == 3

(* --------------------------- JavaScript values ------------------------ *)

Null == [kind |-> "null"]
Undefined == [kind |-> "undefined"]

RECURSIVE Gcd(_, _)
Gcd(a, b) == IF b = 0 THEN a ELSE Gcd(b, a % b)

NaN == [n |-> 0, d |-> 0]
Infinity == [n |-> 1, d |-> 0]

\* a / b on numbers: 0/0 is NaN, k/0 is Infinity
Div(a, b) ==
  IF b = 0 THEN (IF a = 0 THEN NaN ELSE Infinity)
  ELSE LET g == Gcd(a, b) IN [n |-> a \div g, d |-> b \div g]

\* r * k on numbers, NaN and Infinity absorbing
Times(r, k) ==
  IF r.d = 0 THEN r
  ELSE LET g == Gcd(r.n * k, r.d) IN [n |-> (r.n * k) \div g, d |-> r.d \div g]

\* String.prototype.startsWith
startsWith(s, t) == Len(t) <= Len(s) /\ SubSeq(s, 1, Len(t)) = t

\* String.prototype.includes
includes(s, t) ==
  \E i \in 0..(Len(s) - Len(t)) : SubSeq(s, i + 1, i + Len(t)) = t

\* Array.prototype.includes
arrayIncludes(arr, x) == \E i \in 1..Len(arr) : arr[i] = x

lowerToken(tok) ==
  CASE tok = "IMAGE" -> "image"
    [] tok = "PNG" -> "png"
    [] tok = "APPLICATION" -> "application"
    [] tok = "PDF" -> "pdf"
    [] OTHER -> tok

\* String.prototype.toLowerCase
toLowerCase(s) == [i \in 1..Len(s) |-> lowerToken(s[i])]

\* s.split('/')[1]: the tokens between the first and the second "/"
RECURSIVE upToSlash(_)
upToSlash(s) ==
  IF s = <<>> \/ Head(s) = "/" THEN <<>> ELSE <<Head(s)>> \o upToSlash(Tail(s))

RECURSIVE afterSlash(_)
afterSlash(s) ==
  IF s = <<>> THEN <<>> ELSE IF Head(s) = "/" THEN Tail(s) ELSE afterSlash(Tail(s))

splitSlash1(s) == upToSlash(afterSlash(s))

(* ------------------------------ mime types ---------------------------- *)

SUPPORTED_TYPES ==
  [pdf |-> << <<"application", "/", "pdf">> >>,
   doc |-> << <<"application", "/", "msword">>,
              <<"application", "/",
                "vnd.openxmlformats-officedocument.wordprocessingml.document">> >>,
   image |-> << <<"image", "/", "jpeg">>, <<"image", "/", "jpg">>,
                <<"image", "/", "png">>, <<"image", "/", "gif">>,
                <<"image", "/", "bmp">> >>,
   text |-> << <<"text", "/", "plain">> >>]

\* Object.values(SUPPORTED_TYPES).flat()
allTypes ==
  SUPPORTED_TYPES.pdf \o SUPPORTED_TYPES.doc \o SUPPORTED_TYPES.image
    \o SUPPORTED_TYPES.text

(* ------------------------------ validation ---------------------------- *)

digitValue(c) ==
  CASE c = "0" -> 0 [] c = "1" -> 1 [] c = "2" -> 2 [] c = "3" -> 3
    [] c = "4" -> 4 [] c = "5" -> 5 [] c = "6" -> 6 [] c = "7" -> 7
    [] c = "8" -> 8 [] c = "9" -> 9 [] OTHER -> -1

RECURSIVE leadingDigits(_, _)
leadingDigits(s, acc) ==
  IF s = <<>> \/ digitValue(Head(s)) < 0 THEN acc
  ELSE leadingDigits(Tail(s), 10 * acc + digitValue(Head(s)))

\* a set environment value
Str(chars) == [kind |-> "string", chars |-> chars]

parseDigits(s) ==
  IF s = <<>> \/ digitValue(Head(s)) < 0 THEN [nan |-> TRUE, v |-> 0]
  ELSE [nan |-> FALSE, v |-> leadingDigits(s, 0)]

\* parseInt of an environment value, as [nan, v]: undefined and a string
\* with no leading digit (after an optional sign) give NaN
parseInt(e) ==
  IF e = Undefined THEN [nan |-> TRUE, v |-> 0]
  ELSE IF e.chars # <<>> /\ Head(e.chars) = "-"
    THEN LET p == parseDigits(Tail(e.chars)) IN [nan |-> p.nan, v |-> 0 - p.v]
  ELSE parseDigits(e.chars)

DefaultMaxMB == 50
BytesPerMB == 1048576

\* (parseInt(process.env.MAX_FILE_SIZE_MB) || 50) * 1024 * 1024
maxSizeOf(e) ==
  LET p == parseInt(e)
  IN (IF p.nan \/ p.v = 0 THEN DefaultMaxMB ELSE p.v) * BytesPerMB

\* ['pdf', 'doc', 'docx', 'txt', 'jpg', 'jpeg', 'png'].join(', ')
allowedTypesJoined == "pdf, doc, docx, txt, jpg, jpeg, png"

\* a plausible slip: only the top-level type is compared
isTypeSupported_toplevel(mimetype) ==
  \E i \in 1..Len(allTypes) : upToSlash(mimetype) = upToSlash(allTypes[i])

isTypeSupported(mimetype) ==
  \E i \in 1..Len(allTypes) :
    mimetype = allTypes[i] \/ startsWith(mimetype, allTypes[i])

sizeError(maxSize) ==
  <<"File size too large. Maximum allowed: ", ToString(maxSize \div BytesPerMB), "MB">>

typeError(mimetype) ==
  <<"Unsupported file type: ">> \o mimetype
    \o <<". Supported types: ", allowedTypesJoined>>

\* a plausible slip: >= in the size test
validateFile_ge(file, e) ==
  IF file = Null \/ file = Undefined
    THEN [isValid |-> FALSE, error |-> <<"No file provided">>]
  ELSE IF file.size >= maxSizeOf(e)
    THEN [isValid |-> FALSE, error |-> sizeError(maxSizeOf(e))]
  ELSE IF ~isTypeSupported(file.mimetype)
    THEN [isValid |-> FALSE, error |-> typeError(file.mimetype)]
  ELSE [isValid |-> TRUE]

\* a plausible slip: the type test placed before the size test
validateFile_typeFirst(file, e) ==
  IF file = Null \/ file = Undefined
    THEN [isValid |-> FALSE, error |-> <<"No file provided">>]
  ELSE IF ~isTypeSupported(file.mimetype)
    THEN [isValid |-> FALSE, error |-> typeError(file.mimetype)]
  ELSE IF file.size > maxSizeOf(e)
    THEN [isValid |-> FALSE, error |-> sizeError(maxSizeOf(e))]
  ELSE [isValid |-> TRUE]

validateFile(file, e) ==
  IF file = Null \/ file = Undefined
    THEN [isValid |-> FALSE, error |-> <<"No file provided">>]
  ELSE IF file.size > maxSizeOf(e)
    THEN [isValid |-> FALSE, error |-> sizeError(maxSizeOf(e))]
  ELSE IF ~isTypeSupported(file.mimetype)
    THEN [isValid |-> FALSE, error |-> typeError(file.mimetype)]
  ELSE [isValid |-> TRUE]

(* ------------------------------ extraction ---------------------------- *)

\* the branch extractText takes for a lower-cased mime type
category(mimeType) ==
  IF arrayIncludes(SUPPORTED_TYPES.pdf, mimeType) THEN "pdf"
  ELSE IF arrayIncludes(SUPPORTED_TYPES.doc, mimeType) THEN "word"
  ELSE IF \E i \in 1..Len(SUPPORTED_TYPES.image) :
            includes(mimeType, splitSlash1(SUPPORTED_TYPES.image[i]))
    THEN "image"
  ELSE IF arrayIncludes(SUPPORTED_TYPES.text, mimeType) THEN "text"
  ELSE "none"

PageChars == 3000

\* Math.ceil(length / 3000)
estimatePages(len) == (len + PageChars - 1) \div PageChars

\* a plausible slip: the confidence written as a percentage
pdfResult_percent(text, numpages) ==
  [text |-> text, pages |-> numpages, confidence |-> 9500,
   metadata |-> [info |-> "info", version |-> "version"]]

pdfResult(text, numpages) ==
  [text |-> text, pages |-> numpages, confidence |-> 95,
   metadata |-> [info |-> "info", version |-> "version"]]

extractFromPDFWithOCR ==
  [text |-> <<>>, pages |-> 0, confidence |-> 0,
   metadata |-> [extractionMethod |-> "ocr-fallback"]]

wordResult(text) ==
  [text |-> text, confidence |-> 98, pages |-> estimatePages(Len(text)),
   metadata |-> [messages |-> "messages", extractionMethod |-> "mammoth"]]

imageResult(buffer, optimizedBuffer, ocr) ==
  [text |-> ocr.text, confidence |-> ocr.confidence,
   pages |-> IF ocr.pages # 0 THEN ocr.pages ELSE 1,
   metadata |-> [extractionMethod |-> "google-vision",
                 originalSize |-> Len(buffer),
                 optimizedSize |-> Len(optimizedBuffer),
                 pages |-> ocr.pages]]

ReplacementChar == 65533

\* Buffer.prototype.toString('utf-8'): one- and two-byte sequences decode,
\* every other byte becomes U+FFFD; the call never throws
RECURSIVE utf8Decode(_)
utf8Decode(b) ==
  IF b = <<>> THEN <<>>
  ELSE IF Head(b) < 128 THEN <<Head(b)>> \o utf8Decode(Tail(b))
  ELSE IF Head(b) >= 194 /\ Head(b) < 224 /\ Len(b) >= 2
          /\ b[2] >= 128 /\ b[2] < 192
    THEN <<(Head(b) - 192) * 64 + (b[2] - 128)>> \o utf8Decode(Tail(Tail(b)))
  ELSE <<ReplacementChar>> \o utf8Decode(Tail(b))

\* a plausible slip: the values of the latin1 branch on the UTF-8 path
extractFromText_fallback(buffer) ==
  LET text == utf8Decode(buffer)
  IN [text |-> text, confidence |-> 90, pages |-> estimatePages(Len(text)),
      encoding |-> "latin1",
      metadata |-> [extractionMethod |-> "direct-fallback",
                    originalEncoding |-> "latin1"]]

\* toString('utf-8') does not throw on a Buffer, so the catch block with the
\* latin1 decoding (lines 251-269) is never entered
extractFromText(buffer) ==
  LET text == utf8Decode(buffer)
  IN [text |-> text, confidence |-> 100, pages |-> estimatePages(Len(text)),
      encoding |-> "UTF-8",
      metadata |-> [extractionMethod |-> "direct", originalEncoding |-> "UTF-8"]]

(* ------------------------------ enrichment ----------------------------- *)

\* the characters matched by \s and removed by trim()
isSpace(ch) ==
  ch \in {9, 10, 11, 12, 13, 32, 160, 5760, 8232, 8233, 8239, 8287, 12288, 65279}
    \/ (ch >= 8192 /\ ch <= 8202)

RECURSIVE trimStart(_)
trimStart(s) == IF s # <<>> /\ isSpace(Head(s)) THEN trimStart(Tail(s)) ELSE s

RECURSIVE trimEnd(_)
trimEnd(s) ==
  IF s # <<>> /\ isSpace(s[Len(s)]) THEN trimEnd(SubSeq(s, 1, Len(s) - 1)) ELSE s

\* String.prototype.trim
trim(s) == trimEnd(trimStart(s))

\* s.split(/\s+/), cur being the token read so far: every maximal run of
\* white space separates two tokens, an empty string gives one empty token
RECURSIVE splitSpaces(_, _)
splitSpaces(s, cur) ==
  IF s = <<>> THEN <<cur>>
  ELSE IF isSpace(Head(s)) THEN <<cur>> \o splitSpaces(trimStart(s), <<>>)
  ELSE splitSpaces(Tail(s), Append(cur, Head(s)))

\* a plausible slip: split(' ') with no filter
RECURSIVE splitOnSpace(_, _)
splitOnSpace(s, cur) ==
  IF s = <<>> THEN <<cur>>
  ELSE IF Head(s) = 32 THEN <<cur>> \o splitOnSpace(Tail(s), <<>>)
  ELSE splitOnSpace(Tail(s), Append(cur, Head(s)))

countWords_splitOnSpace(text) ==
  IF text = <<>> THEN 0
  ELSE Len(splitOnSpace(text, <<>>))

\* every text of the model is a string, so of the guard !text || typeof text
\* !== 'string' only the empty string is left
countWords(text) ==
  IF text = <<>> THEN 0
  ELSE Len(SelectSeq(splitSpaces(trim(text), <<>>), LAMBDA word : Len(word) > 0))

\* String.prototype.toLowerCase on a text (the letters A-Z; the texts of the
\* model hold no other cased letter)
toLowerCaseText(s) ==
  [i \in 1..Len(s) |-> IF s[i] >= 65 /\ s[i] <= 90 THEN s[i] + 32 ELSE s[i]]

\* s.split(/\s+/) computed from the token boundaries and not by recursion
\* over the characters, so that texts of more than 100 tokens are evaluated:
\* a token starts after white space and ends before white space, and white
\* space at the very start or end (and the empty string) gives an empty token
splitWords(s) ==
  LET n == Len(s)
      starts == {i \in 1..n : ~isSpace(s[i]) /\ (i = 1 \/ isSpace(s[i - 1]))}
      ends == {i \in 1..n : ~isSpace(s[i]) /\ (i = n \/ isSpace(s[i + 1]))}
      kth(S, k) == CHOOSE i \in S : Cardinality({j \in S : j <= i}) = k
      tokens == [k \in 1..Cardinality(starts) |->
                   SubSeq(s, kth(starts, k), kth(ends, k))]
      lead == IF n = 0 \/ isSpace(s[1]) THEN << <<>> >> ELSE <<>>
      trail == IF n > 0 /\ isSpace(s[n]) THEN << <<>> >> ELSE <<>>
  IN lead \o tokens \o trail

\* the stop words of detectLanguage, in the order of Object.entries
commonWords ==
  [en |-> << <<116, 104, 101>>, <<97, 110, 100>>, <<111, 114>>, <<98, 117, 116>>,
             <<105, 110>>, <<111, 110>>, <<97, 116>>, <<116, 111>>,
             <<102, 111, 114>>, <<111, 102>> >>,
   es |-> << <<101, 108>>, <<108, 97>>, <<121>>, <<111>>, <<112, 101, 114, 111>>,
             <<101, 110>>, <<117, 110>>, <<117, 110, 97>>, <<100, 101>>,
             <<113, 117, 101>> >>,
   fr |-> << <<108, 101>>, <<100, 101>>, <<101, 116>>, <<111, 117>>,
             <<109, 97, 105, 115>>, <<100, 97, 110, 115>>, <<115, 117, 114>>,
             <<112, 111, 117, 114>>, <<97, 118, 101, 99>>, <<99, 101>> >>]

languages == <<"en", "es", "fr">>

\* slice(0, 100)
WordLimit == 100

\* words.filter(word => langWords.includes(word)).length
langScore(words, langWords) ==
  Len(SelectSeq(words, LAMBDA word : arrayIncludes(langWords, word)))

\* the forEach of detectLanguage from its i-th entry on
RECURSIVE scanLanguages(_, _, _, _)
scanLanguages(words, i, maxScore, detectedLang) ==
  IF i > Len(languages) THEN detectedLang
  ELSE LET score == langScore(words, commonWords[languages[i]])
       IN IF score > maxScore
            THEN scanLanguages(words, i + 1, score, languages[i])
          ELSE scanLanguages(words, i + 1, maxScore, detectedLang)

detectLanguage(text) ==
  IF text = <<>> THEN "unknown"
  ELSE LET all == splitWords(toLowerCaseText(text))
           words == SubSeq(all, 1, IF Len(all) < WordLimit THEN Len(all) ELSE WordLimit)
       IN scanLanguages(words, 1, 0, "en")

(* ------------------------------ one job -------------------------------- *)

Callers == {"single", "batch"}

\* optimizedBuffer and ocrInput are locals of extractFromImage: they are the
\* empty buffer until it assigns them
IdleJob ==
  [pc |-> "idle", file |-> Undefined, documentId |-> 0, validation |-> Undefined,
   done |-> {}, trace |-> <<>>, optimizedBuffer |-> <<>>,
   ocrInput |-> <<>>, extractionResult |-> Undefined,
   result |-> Undefined, error |-> Undefined]

\* reading a property of null
TypeErrorNull ==
  [name |-> "TypeError",
   message |-> <<"Cannot read properties of null (reading 'originalname')">>]

Error(message) == [name |-> "Error", message |-> message]

\* a plausible slip: the cause is dropped from the message
wrap_noCause(error) == [name |-> "Error", message |-> <<"Document processing failed">>]

\* the catch of processDocument: the error is wrapped and thrown again
wrap(error) == Error(<<"Document processing failed: ">> \o error.message)

\* the stages of one job; job.done holds the stages that have succeeded
Stages == {"validate", "extract", "upload"}

\* the library or service call extractText starts for a category
firstCall(cat) ==
  CASE cat = "pdf" -> "pdf-parse"
    [] cat = "word" -> "mammoth"
    [] cat = "image" -> "sharp"
    [] cat = "text" -> "toString"

\* a plausible slip: the id generated once, when the module is loaded, and
\* not in each call
processDocument_sameId(file, documentId, e) ==
  LET j == [IdleJob EXCEPT !.file = file, !.documentId = 1]
  IN IF file = Null
       THEN [j EXCEPT !.pc = "thrown", !.error = TypeErrorNull]
     ELSE LET validation == validateFile(file, e)
              mimeType == toLowerCase(file.mimetype)
              f == [j EXCEPT !.validation = validation, !.trace = <<"validateFile">>]
              v == [f EXCEPT !.done = {"validate"}]
              x == [v EXCEPT !.trace = Append(@, firstCall(category(mimeType)))]
          IN IF ~validation.isValid
               THEN [f EXCEPT !.pc = "thrown",
                              !.error = wrap(Error(validation.error))]
             ELSE IF category(mimeType) = "none"
               THEN [v EXCEPT !.pc = "thrown",
                              !.error = wrap(Error(<<"Unsupported file type: ">>
                                                     \o mimeType))]
             ELSE IF category(mimeType) = "image"
               THEN [x EXCEPT !.pc = "optimize"]
             ELSE [x EXCEPT !.pc = category(mimeType)]

\* job.trace lists, in order, the calls a job has made (validateFile, the
\* libraries, analyzeDocument, uploadFile) and the faults they ended with.
\* processDocument from its entry to its first await.  The two log lines
\* read file.originalname: for a null file the one in the try block throws
\* before validateFile runs and the one in the catch block throws again.
processDocument(file, documentId, e) ==
  LET j == [IdleJob EXCEPT !.file = file, !.documentId = documentId]
  IN IF file = Null
       THEN [j EXCEPT !.pc = "thrown", !.error = TypeErrorNull]
     ELSE LET validation == validateFile(file, e)
              mimeType == toLowerCase(file.mimetype)
              f == [j EXCEPT !.validation = validation, !.trace = <<"validateFile">>]
              v == [f EXCEPT !.done = {"validate"}]
              x == [v EXCEPT !.trace = Append(@, firstCall(category(mimeType)))]
          IN IF ~validation.isValid
               THEN [f EXCEPT !.pc = "thrown",
                              !.error = wrap(Error(validation.error))]
             ELSE IF category(mimeType) = "none"
               THEN [v EXCEPT !.pc = "thrown",
                              !.error = wrap(Error(<<"Unsupported file type: ">>
                                                     \o mimeType))]
             ELSE IF category(mimeType) = "image"
               THEN [x EXCEPT !.pc = "optimize"]
             ELSE [x EXCEPT !.pc = category(mimeType)]

\* a plausible slip: extractionResult.pages ?? 1, which keeps a 0
pagesOrOne_nullish(r) == IF "pages" \in DOMAIN r THEN r.pages ELSE 1

\* extractionResult.pages || 1
pagesOrOne(r) == IF "pages" \in DOMAIN r /\ r.pages # 0 THEN r.pages ELSE 1

\* extractionResult.encoding || 'UTF-8'
encodingOrDefault(r) == IF "encoding" \in DOMAIN r THEN r.encoding ELSE "UTF-8"

\* {...a, ...b}
spread(a, b) ==
  [k \in DOMAIN a \cup DOMAIN b |-> IF k \in DOMAIN b THEN b[k] ELSE a[k]]

\* the ProcessedDocument of lines 55-72
assemble(j, uploadResult) ==
  [documentId |-> j.documentId,
   originalName |-> j.file.originalname,
   mimeType |-> j.file.mimetype,
   size |-> j.file.size,
   uploadUrl |-> uploadResult.url,
   extractedText |-> j.extractionResult.text,
   confidence |-> j.extractionResult.confidence,
   pages |-> pagesOrOne(j.extractionResult),
   wordCount |-> countWords(j.extractionResult.text),
   metadata |-> spread([language |-> detectLanguage(j.extractionResult.text),
                        encoding |-> encodingOrDefault(j.extractionResult)],
                       j.extractionResult.metadata)]

(* ------------------------------ the batch ------------------------------ *)

IdleBatch ==
  [pc |-> "idle", files |-> <<>>, i |-> 0, results |-> <<>>, errors |-> <<>>,
   log |-> <<>>, ret |-> Undefined, error |-> Undefined]

\* a plausible slip: the rate taken over the files that succeeded or failed
\* so far plus one
successRate_off(results, files) == Times(Div(Len(results), Len(files) + 1), 100)

\* (results.length / files.length) * 100
successRate(results, files) == Times(Div(Len(results), Len(files)), 100)

\* a plausible slip: totalProcessed counts the successes only
batchResult_successes(results, errors, files) ==
  [successful |-> results, failed |-> errors,
   totalProcessed |-> Len(results),
   successRate |-> successRate(results, files)]

\* a plausible slip: the results collected with unshift, newest first
batchResult_newestFirst(results, errors, files) ==
  [successful |-> [i \in 1..Len(results) |-> results[Len(results) + 1 - i]],
   failed |-> [i \in 1..Len(errors) |-> errors[Len(errors) + 1 - i]],
   totalProcessed |-> Len(files),
   successRate |-> successRate(results, files)]

\* the object returned at lines 339-344
batchResult(results, errors, files) ==
  [successful |-> results, failed |-> errors,
   totalProcessed |-> Len(files),
   successRate |-> successRate(results, files)]

(* ------------------------------ the status ----------------------------- *)

\* a plausible slip: a job reported as still being processed
getProcessingStatus_processing(documentId) ==
  [documentId |-> documentId, status |-> "processing", progress |-> 50,
   estimatedTimeRemaining |-> 30]

\* the function reads no queue and no database: its reply depends on its
\* argument only
getProcessingStatus(documentId) ==
  [documentId |-> documentId, status |-> "completed", progress |-> 100,
   estimatedTimeRemaining |-> 0]

(* --------------------------- inputs and replies ------------------------ *)

File(name, mimetype, size, buffer) ==
  [kind |-> "file", originalname |-> name, mimetype |-> mimetype,
   size |-> size, buffer |-> buffer]

Zip == <<"application", "/", "zip">>

\* the files a caller submits: one per category, an unregistered type
\* (small and oversized), a registered type with a parameter, sizes at and
\* above 50 MB and between 1 MB and 50 MB
Files ==
  { File("a.pdf", SUPPORTED_TYPES.pdf[1], 1024, <<37, 80>>),
    File("b.png", SUPPORTED_TYPES.image[3], 1024, <<137, 80>>),
    File("c.txt", SUPPORTED_TYPES.text[1], 2 * BytesPerMB, <<104, 105>>),
    File("d.zip", Zip, 1024, <<80, 75>>),
    File("e.zip", Zip, DefaultMaxMB * BytesPerMB + 1, <<80, 75>>),
    File("g.docx", SUPPORTED_TYPES.doc[2], DefaultMaxMB * BytesPerMB, <<80, 75>>),
    File("h.pdf", SUPPORTED_TYPES.pdf[1] \o <<";", "q">>, 1024, <<37, 80>>) }

FilesOrNull == Files \cup {Null}

RECURSIVE SeqsUpTo(_, _)
SeqsUpTo(S, n) ==
  IF n = 0 THEN {<<>>}
  ELSE SeqsUpTo(S, n - 1)
         \cup {Append(q, x) : q \in {r \in SeqsUpTo(S, n - 1) : Len(r) = n - 1}, x \in S}

\* values of process.env.MAX_FILE_SIZE_MB during a run
EnvValues == {Undefined, Str(<<"1">>)}

Texts == {<<>>, <<104, 105, 32, 121, 111>>}

\* what pdf-parse resolves to
PdfDatas == {[text |-> <<>>, numpages |-> 1], [text |-> <<104, 105, 32, 121, 111>>, numpages |-> 2]}

\* what analyzeDocument resolves to (pages is result.pages.length)
OcrResults ==
  {[text |-> <<>>, confidence |-> 0, pages |-> 0],
   [text |-> <<104, 105, 32, 121, 111>>, confidence |-> 87, pages |-> 2]}

\* what sharp resolves to
OptimizedBuffers == {<<137, 80, 78, 71>>}

\* what uploadFile resolves to
UploadResults == {[url |-> "gs://bucket/object"]}

(* ------------------------------- actions ------------------------------- *)

Busy == batch.pc # "idle" \/ job["single"].pc # "idle"

Init ==
  /\ env = Undefined
  /\ nextId = 1
  /\ job = [c \in Callers |-> IdleJob]
  /\ batch = IdleBatch
  /\ vfile = Null
  /\ venv = Undefined
  /\ vres = Undefined
  /\ vcall = Undefined
  /\ tbuf = <<>>
  /\ tres = Undefined
  /\ tdoc = Undefined
  /\ ltext = <<>>
  /\ llang = Undefined
  /\ sret = Undefined

UnchangedValidate ==
  UNCHANGED <<vfile, venv, vres, vcall, tbuf, tres, tdoc, ltext, llang, sret>>

\* some code of the process assigns process.env.MAX_FILE_SIZE_MB
SetEnv ==
  /\ \E v \in EnvValues \ {env} : env' = v
  /\ UNCHANGED <<nextId, job, batch>>
  /\ UnchangedValidate

\* a caller invokes processDocument(file)
Call ==
  /\ nextId <= MaxJobs
  /\ \E file \in FilesOrNull :
       job' = [job EXCEPT !["single"] = processDocument(file, nextId, env)]
  /\ nextId' = nextId + 1
  /\ UNCHANGED <<env, batch>>
  /\ UnchangedValidate

\* the caller of processDocument takes its result or its exception
Settle ==
  /\ job["single"].pc \in {"returned", "thrown"}
  /\ job' = [job EXCEPT !["single"] = IdleJob]
  /\ UNCHANGED <<env, nextId, batch>>
  /\ UnchangedValidate

\* a plausible slip: extractionResult declared at module level, so that a
\* job's assignment is seen by the other job in flight
Step_shared(c, j) ==
  /\ job' = [d \in Callers |->
               IF d = c THEN j
               ELSE IF job[d].pc \in {"pdf", "word", "optimize", "ocr", "text", "upload"}
                 THEN [job[d] EXCEPT !.extractionResult = j.extractionResult]
               ELSE job[d]]
  /\ UNCHANGED <<env, nextId, batch>>
  /\ UnchangedValidate

\* a job resumes after an await and runs to its next await, its return or
\* its throw: all it writes are its own locals
Step(c, j) ==
  /\ job' = [job EXCEPT ![c] = j]
  /\ UNCHANGED <<env, nextId, batch>>
  /\ UnchangedValidate

PdfOk(c) ==
  /\ job[c].pc = "pdf"
  /\ \E data \in PdfDatas :
       Step(c, [job[c] EXCEPT !.pc = "upload", !.done = @ \cup {"extract"},
                              !.trace = Append(@, "uploadFile"),
                              !.extractionResult = pdfResult(data.text, data.numpages)])

\* a plausible slip: the catch of extractFromPDF throws instead of falling back
PdfFault_throws(c) ==
  /\ job[c].pc = "pdf"
  /\ Step(c, [job[c] EXCEPT !.pc = "thrown",
                            !.trace = Append(@, "pdf-parse:fault"),
                            !.error = wrap(Error(<<"pdf-parse fault">>))])

PdfFault(c) ==
  /\ job[c].pc = "pdf"
  /\ Step(c, [job[c] EXCEPT !.pc = "upload", !.done = @ \cup {"extract"},
                            !.trace = @ \o <<"pdf-parse:fault", "extractFromPDFWithOCR",
                                              "uploadFile">>,
                            !.extractionResult = extractFromPDFWithOCR])

WordOk(c) ==
  /\ job[c].pc = "word"
  /\ \E text \in Texts :
       Step(c, [job[c] EXCEPT !.pc = "upload", !.done = @ \cup {"extract"},
                              !.trace = Append(@, "uploadFile"),
                              !.extractionResult = wordResult(text)])

WordFault(c) ==
  /\ job[c].pc = "word"
  /\ Step(c, [job[c] EXCEPT !.pc = "thrown",
                            !.trace = Append(@, "mammoth:fault"),
                            !.error = wrap(Error(<<"mammoth fault">>))])

OptimizeOk(c) ==
  /\ job[c].pc = "optimize"
  /\ \E b \in OptimizedBuffers :
       Step(c, [job[c] EXCEPT !.pc = "ocr", !.optimizedBuffer = b,
                              !.trace = Append(@, "analyzeDocument"),
                              !.ocrInput = b])

\* a plausible slip: optimizeImage lets the fault of sharp through
OptimizeFault_throws(c) ==
  /\ job[c].pc = "optimize"
  /\ Step(c, [job[c] EXCEPT !.pc = "thrown",
                            !.trace = Append(@, "sharp:fault"),
                            !.error = wrap(Error(<<"sharp fault">>))])

OptimizeFault(c) ==
  /\ job[c].pc = "optimize"
  /\ Step(c, [job[c] EXCEPT !.pc = "ocr", !.optimizedBuffer = job[c].file.buffer,
                            !.trace = @ \o <<"sharp:fault", "analyzeDocument">>,
                            !.ocrInput = job[c].file.buffer])

OcrOk(c) ==
  /\ job[c].pc = "ocr"
  /\ \E ocr \in OcrResults :
       Step(c, [job[c] EXCEPT !.pc = "upload", !.done = @ \cup {"extract"},
                  !.trace = Append(@, "uploadFile"),
                  !.extractionResult =
                     imageResult(job[c].file.buffer, job[c].optimizedBuffer, ocr)])

\* a plausible slip: the fault of analyzeDocument is swallowed and the upload
\* follows
OcrFault_uploads(c) ==
  /\ job[c].pc = "ocr"
  /\ Step(c, [job[c] EXCEPT !.pc = "upload",
                            !.trace = @ \o <<"analyzeDocument:fault", "uploadFile">>,
                            !.extractionResult = imageResult(job[c].file.buffer,
                                                    job[c].optimizedBuffer,
                                                    [text |-> <<>>, confidence |-> 0,
                                                     pages |-> 0])])

OcrFault(c) ==
  /\ job[c].pc = "ocr"
  /\ Step(c, [job[c] EXCEPT !.pc = "thrown",
                            !.trace = Append(@, "analyzeDocument:fault"),
                            !.error = wrap(Error(<<"vision fault">>))])

TextDone(c) ==
  /\ job[c].pc = "text"
  /\ Step(c, [job[c] EXCEPT !.pc = "upload", !.done = @ \cup {"extract"},
                            !.trace = Append(@, "uploadFile"),
                            !.extractionResult = extractFromText(job[c].file.buffer)])

UploadOk(c) ==
  /\ job[c].pc = "upload"
  /\ \E uploadResult \in UploadResults :
       Step(c, [job[c] EXCEPT !.pc = "returned", !.done = @ \cup {"upload"},
                              !.result = assemble(job[c], uploadResult)])

\* a plausible slip: the upload fault is swallowed and the document returned
UploadFail_swallow(c) ==
  /\ job[c].pc = "upload"
  /\ Step(c, [job[c] EXCEPT !.pc = "returned",
                            !.trace = Append(@, "uploadFile:fault"),
                            !.result = assemble(job[c], [url |-> "none"])])

UploadFail(c) ==
  /\ job[c].pc = "upload"
  /\ Step(c, [job[c] EXCEPT !.pc = "thrown",
                            !.trace = Append(@, "uploadFile:fault"),
                            !.error = wrap(Error(<<"storage fault">>))])

\* a caller invokes processDocuments(files): the loop runs up to the first
\* await, or to the return for no file
BatchCall ==
  /\ \E files \in SeqsUpTo(FilesOrNull, MaxFiles) :
       /\ nextId + Len(files) <= MaxJobs + 1
       /\ IF files = <<>>
            THEN /\ batch' = [IdleBatch EXCEPT !.pc = "returned",
                                !.ret = batchResult(<<>>, <<>>, files)]
                 /\ UNCHANGED <<job, nextId>>
            ELSE /\ batch' = [IdleBatch EXCEPT !.pc = "await", !.files = files, !.i = 1]
                 /\ job' = [job EXCEPT !["batch"] = processDocument(files[1], nextId, env)]
                 /\ nextId' = nextId + 1
  /\ UNCHANGED env
  /\ UnchangedValidate

\* the await of line 329 resumes: push the result, or run the catch block
\* (which reads file.originalname), then go on with the next file or return.
\* batch.log keeps, per file handled, the stages its job completed.
BatchResume ==
  /\ batch.pc = "await"
  /\ job["batch"].pc \in {"returned", "thrown"}
  /\ LET j == job["batch"]
         file == batch.files[batch.i]
         logged == [batch EXCEPT !.log = Append(@, j.done)]
         collected ==
           IF j.pc = "returned"
             THEN [logged EXCEPT !.results = Append(@, j.result)]
             ELSE [logged EXCEPT !.errors =
                      Append(@, [fileName |-> file.originalname,
                                 error |-> j.error.message])]
     IN IF j.pc = "thrown" /\ file = Null
          THEN /\ batch' = [logged EXCEPT !.pc = "thrown", !.error = TypeErrorNull]
               /\ job' = [job EXCEPT !["batch"] = IdleJob]
               /\ UNCHANGED nextId
        ELSE IF batch.i < Len(batch.files)
          THEN /\ batch' = [collected EXCEPT !.i = @ + 1]
               /\ job' = [job EXCEPT !["batch"] =
                            processDocument(batch.files[batch.i + 1], nextId, env)]
               /\ nextId' = nextId + 1
        ELSE /\ batch' = [collected EXCEPT !.pc = "returned",
                            !.ret = batchResult(collected.results, collected.errors,
                                                collected.files)]
             /\ job' = [job EXCEPT !["batch"] = IdleJob]
             /\ UNCHANGED nextId
  /\ UNCHANGED env
  /\ UnchangedValidate

\* the caller of processDocuments takes its result or its exception
BatchSettle ==
  /\ batch.pc \in {"returned", "thrown"}
  /\ batch' = IdleBatch
  /\ UNCHANGED <<env, nextId, job>>
  /\ UnchangedValidate

External(c) ==
  \/ PdfOk(c)
  \/ PdfFault(c)
  \/ WordOk(c)
  \/ WordFault(c)
  \/ OptimizeOk(c)
  \/ OptimizeFault(c)
  \/ OcrOk(c)
  \/ OcrFault(c)
  \/ TextDone(c)
  \/ UploadOk(c)
  \/ UploadFail(c)

Next ==
  \/ SetEnv
  \/ (~Busy /\ Call)
  \/ Settle
  \/ (~Busy /\ BatchCall)
  \/ BatchResume
  \/ BatchSettle
  \/ \E c \in Callers : External(c)

Spec == Init /\ [][Next]_vars

(* ----------------------- validateFile on its own ----------------------- *)

ValMimes ==
  {allTypes[i] : i \in 1..Len(allTypes)}
    \cup {Zip,
          <<"application">>,
          <<"application", "/", "x-pdf">>,
          <<"application", "/", "pdf", ";", "q">>,
          <<"application", "/", "pdf", ";", "png">>,
          <<"text", "/", "plain", ";", "q">>,
          <<"image", "/", "svg+xml">>,
          <<"IMAGE", "/", "PNG">>}

ValSizes ==
  {0, 1024, BytesPerMB, BytesPerMB + 1, DefaultMaxMB * BytesPerMB,
   DefaultMaxMB * BytesPerMB + 1, 60 * BytesPerMB, 60 * BytesPerMB + 1}

ValFiles ==
  {File("v", m, size, <<>>) : m \in ValMimes, size \in ValSizes} \cup {Null}

ValEnvValues ==
  {Undefined, Str(<<>>), Str(<<"1">>), Str(<<"0">>), Str(<<"6", "0">>),
   Str(<<"x">>), Str(<<"1", "x">>), Str(<<"-", "1">>)}

InitValidate ==
  /\ env = Undefined
  /\ nextId = 1
  /\ job = [c \in Callers |-> IdleJob]
  /\ batch = IdleBatch
  /\ vfile \in ValFiles
  /\ venv \in ValEnvValues
  /\ vres = Undefined
  /\ vcall = Undefined
  /\ tbuf = <<>>
  /\ tres = Undefined
  /\ tdoc = Undefined
  /\ ltext = <<>>
  /\ llang = Undefined
  /\ sret = Undefined

\* validateFile(vfile) is evaluated with MAX_FILE_SIZE_MB = venv
Validate ==
  /\ vres = Undefined
  /\ vres' = validateFile(vfile, venv)
  /\ UNCHANGED <<env, nextId, job, batch, vfile, venv, vcall, tbuf, tres, tdoc,
                 ltext, llang, sret>>

NewInput ==
  /\ vres # Undefined
  /\ vfile' \in ValFiles
  /\ venv' \in ValEnvValues
  /\ vres' = Undefined
  /\ vcall' = Undefined
  /\ UNCHANGED <<env, nextId, job, batch, tbuf, tres, tdoc, ltext, llang, sret>>

\* extractText chooses its branch for a file that validateFile has accepted
\* (lines 38-44); vcall holds the branch taken
Dispatch ==
  /\ vres # Undefined
  /\ vres.isValid
  /\ vcall = Undefined
  /\ vcall' = [branch |-> category(toLowerCase(vfile.mimetype))]
  /\ UNCHANGED <<env, nextId, job, batch, vfile, venv, vres, tbuf, tres, tdoc,
                 ltext, llang, sret>>

NextValidate ==
  \/ Validate
  \/ Dispatch
  \/ NewInput

SpecValidate == InitValidate /\ [][NextValidate]_vars

(* --------------------- the plain-text path on its own ------------------ *)

\* bytes of a text buffer: space, tab, 'a', 0xFF (never valid in UTF-8),
\* 0xC3 and 0xA9 (together the two-byte encoding of U+00E9)
TextBytes == {32, 9, 97, 255, 195, 169}

TextBuffers == SeqsUpTo(TextBytes, MaxBufLen) \cup {<<97, 32, 32, 97, 9, 97>>}

InitText ==
  /\ env = Undefined
  /\ nextId = 1
  /\ job = [c \in Callers |-> IdleJob]
  /\ batch = IdleBatch
  /\ vfile = Null
  /\ venv = Undefined
  /\ vres = Undefined
  /\ vcall = Undefined
  /\ tbuf \in TextBuffers
  /\ tres = Undefined
  /\ tdoc = Undefined
  /\ ltext = <<>>
  /\ llang = Undefined
  /\ sret = Undefined

\* extractText and the assembly for a valid text/plain file with bytes tbuf
\* whose upload succeeds
TextJob ==
  /\ tres = Undefined
  /\ tres' = extractFromText(tbuf)
  /\ \E uploadResult \in UploadResults :
       tdoc' = assemble([IdleJob EXCEPT
                           !.file = File("t.txt", SUPPORTED_TYPES.text[1], Len(tbuf), tbuf),
                           !.documentId = 1,
                           !.extractionResult = extractFromText(tbuf)],
                        uploadResult)
  /\ UNCHANGED <<env, nextId, job, batch, vfile, venv, vres, vcall, tbuf,
                 ltext, llang, sret>>

NextText == TextJob

SpecText == InitText /\ [][NextText]_vars

(* ------------------ getProcessingStatus beside the jobs ---------------- *)

\* the ids asked about: 0 is never issued, the others are issued sooner or
\* later
StatusIds == 0..MaxJobs

\* a caller invokes getProcessingStatus(documentId); sret keeps the argument,
\* the reply and what the job with that id was doing at the time of the call
GetStatus ==
  /\ \E documentId \in StatusIds :
       sret' = [query |-> documentId,
                seen |-> IF job["single"].pc # "idle"
                             /\ job["single"].documentId = documentId
                           THEN job["single"].pc
                         ELSE IF documentId >= nextId \/ documentId = 0 THEN "never issued"
                         ELSE "settled",
                reply |-> getProcessingStatus(documentId)]
  /\ UNCHANGED <<env, nextId, job, batch, vfile, venv, vres, vcall, tbuf, tres, tdoc,
                 ltext, llang>>

\* processDocument calls one after the other, with status calls at any time
NextStatus ==
  \/ SetEnv
  \/ (~Busy /\ Call)
  \/ Settle
  \/ External("single")
  \/ GetStatus

SpecStatus == Init /\ [][NextStatus]_vars

(* ------------------ overlapping processDocument calls ------------------ *)

\* a caller invokes processDocument(file) while the other caller's call may
\* be waiting at an await; each caller has one call in flight at most
Invoke(c) ==
  /\ job[c].pc = "idle"
  /\ nextId <= MaxJobs
  /\ \E file \in FilesOrNull :
       job' = [job EXCEPT ![c] = processDocument(file, nextId, env)]
  /\ nextId' = nextId + 1
  /\ UNCHANGED <<env, batch>>
  /\ UnchangedValidate

\* the caller takes the result or the exception of its call
Return(c) ==
  /\ job[c].pc \in {"returned", "thrown"}
  /\ job' = [job EXCEPT ![c] = IdleJob]
  /\ UNCHANGED <<env, nextId, batch>>
  /\ UnchangedValidate

NextConcurrent ==
  \/ SetEnv
  \/ \E c \in Callers : Invoke(c)
  \/ \E c \in Callers : Return(c)
  \/ \E c \in Callers : External(c)

SpecConcurrent == Init /\ [][NextConcurrent]_vars

(* ---------------- an external call that never completes ---------------- *)

\* the promise of analyzeDocument or of uploadFile is never settled: the
\* code sets no timeout on either call, so the job stays at its await
Hang(c) ==
  /\ job[c].pc \in {"ocr", "upload"}
  /\ Step(c, [job[c] EXCEPT !.pc = "hung",
                            !.trace = Append(@, IF job[c].pc = "ocr"
                                                  THEN "analyzeDocument:never"
                                                ELSE "uploadFile:never")])

\* processDocuments calls one after the other
NextHang ==
  \/ (~Busy /\ BatchCall)
  \/ BatchResume
  \/ BatchSettle
  \/ External("batch")
  \/ Hang("batch")

\* the event loop runs every continuation whose promise has settled, and
\* every external call that does not hang is answered
SpecHang ==
  /\ Init
  /\ [][NextHang]_vars
  /\ WF_vars(BatchResume)
  /\ WF_vars(BatchSettle)
  /\ WF_vars(External("batch"))

(* ---------------------- detectLanguage on its own ---------------------- *)

\* "the", "el", "le", "de" (Spanish and French), "x" (no stop word), "The"
LangWords ==
  {<<116, 104, 101>>, <<101, 108>>, <<108, 101>>, <<100, 101>>, <<120>>,
   <<84, 104, 101>>}

\* words.join(' ')
RECURSIVE joinWords(_)
joinWords(ws) ==
  IF ws = <<>> THEN <<>>
  ELSE IF Len(ws) = 1 THEN ws[1]
  ELSE ws[1] \o <<32>> \o joinWords(Tail(ws))

\* n times the word "x", each followed by a blank
xWords(n) == [i \in 1..(2 * n) |-> IF i % 2 = 1 THEN 120 ELSE 32]

\* texts of up to MaxWords words, a text that starts with a blank, and texts
\* whose only stop word is the 100th and the 101st token
LangTexts ==
  {joinWords(ws) : ws \in SeqsUpTo(LangWords, MaxWords)}
    \cup {<<32, 101, 108>>,
          xWords(WordLimit - 1) \o <<101, 108>>,
          xWords(WordLimit) \o <<101, 108>>}

InitLang ==
  /\ env = Undefined
  /\ nextId = 1
  /\ job = [c \in Callers |-> IdleJob]
  /\ batch = IdleBatch
  /\ vfile = Null
  /\ venv = Undefined
  /\ vres = Undefined
  /\ vcall = Undefined
  /\ tbuf = <<>>
  /\ tres = Undefined
  /\ tdoc = Undefined
  /\ ltext \in LangTexts
  /\ llang = Undefined
  /\ sret = Undefined

\* detectLanguage(ltext), as line 67 calls it on the extracted text; llang
\* holds the value returned
Detect ==
  /\ llang = Undefined
  /\ llang' = [kind |-> "returned", language |-> detectLanguage(ltext)]
  /\ UNCHANGED <<env, nextId, job, batch, vfile, venv, vres, vcall, tbuf, tres, tdoc,
                 ltext, sret>>

NextLang == Detect

SpecLang == InitLang /\ [][NextLang]_vars

(* ------------------------------- claims -------------------------------- *)

BatchFinished == batch.pc \in {"returned", "thrown"}

\* the indices of the files handled whose three stages all succeeded
Succeeded == {i \in 1..Len(batch.log) : batch.log[i] = Stages}

SizeReason == "File size too large. Maximum allowed: "
TypeReason == "Unsupported file type: "

\* C1: once processDocuments has finished, every submitted file has been
\* handled and has given exactly one entry, in successful or in failed.
C1_EveryFileOneEntry ==
  BatchFinished =>
    /\ Len(batch.log) = Len(batch.files)
    /\ Len(batch.results) + Len(batch.errors) = Len(batch.files)

C2_Witness ==
  /\ batch.pc = "returned"
  /\ Len(batch.ret.successful) >= 1
  /\ Len(batch.ret.failed) >= 1

\* C2: in every BatchResult returned, totalProcessed is the sum of the
\* lengths of successful and failed and is the number of files submitted.
C2_TotalProcessed ==
  batch.pc = "returned" =>
    /\ batch.ret.totalProcessed = Len(batch.ret.successful) + Len(batch.ret.failed)
    /\ batch.ret.totalProcessed = Len(batch.files)

\* C3: processDocuments never throws: every batch call returns a BatchResult.
C3_BatchNeverThrows == batch.pc # "thrown"

\* C4: for a batch of no file the BatchResult has successRate 0, successful
\* and failed empty and totalProcessed 0.
C4_EmptyBatchRateZero ==
  (batch.pc = "returned" /\ batch.files = <<>>) =>
    /\ batch.ret.successRate = [n |-> 0, d |-> 1]
    /\ batch.ret.successful = <<>>
    /\ batch.ret.failed = <<>>
    /\ batch.ret.totalProcessed = 0

C6_SuccessfulIffAllStages ==
  BatchFinished =>
    /\ Len(batch.log) = Len(batch.files)
    /\ Len(batch.results) = Cardinality(Succeeded)
    /\ Len(batch.errors) = Len(batch.files) - Cardinality(Succeeded)

C7_Witness ==
  /\ vres # Undefined
  /\ vfile # Null
  /\ vfile.mimetype = SUPPORTED_TYPES.pdf[1]
  /\ vfile.size > maxSizeOf(venv)
  /\ ~vres.isValid

\* C7: validateFile rejects every file larger than the limit whatever its
\* mime type, rejects no file for its size when it is not larger, and the
\* limit is 50 MB = 52428800 bytes when MAX_FILE_SIZE_MB is not set.
C7_SizeLimit ==
  (vres # Undefined /\ vfile # Null) =>
    LET limit == IF venv = Undefined THEN 52428800 ELSE maxSizeOf(venv)
    IN /\ vfile.size > limit => (~vres.isValid /\ vres.error[1] = SizeReason)
       /\ vfile.size <= limit => (vres.isValid \/ vres.error[1] # SizeReason)

\* a mime type that is no registered type and starts with none
Unregistered(m) ==
  \A t \in {allTypes[i] : i \in 1..Len(allTypes)} :
    m # t /\ (Len(m) < Len(t) \/ SubSeq(m, 1, Len(t)) # t)

C8_Witness ==
  /\ job["batch"].pc = "thrown"
  /\ job["batch"].file # Null
  /\ job["batch"].file.mimetype = Zip
  /\ job["batch"].validation.error[1] = TypeReason

\* C8: a job whose file has an unregistered mime type fails validation and
\* ends thrown, and no ProcessedDocument carries such a mime type.
C8_UnregisteredRejected ==
  /\ \A c \in Callers :
       (job[c].pc # "idle" /\ job[c].file # Null
          /\ Unregistered(job[c].file.mimetype)) =>
         /\ job[c].pc = "thrown"
         /\ ~job[c].validation.isValid
         /\ job[c].result = Undefined
  /\ \A i \in 1..Len(batch.results) : ~Unregistered(batch.results[i].mimeType)

C9_Witness ==
  /\ vres # Undefined
  /\ vfile # Null
  /\ vfile.mimetype = Zip
  /\ vfile.size > maxSizeOf(venv)
  /\ vres.error[1] = SizeReason

\* C9: validateFile tests presence, then size, then type, and reports the
\* first test that fails: an oversized file of an unsupported type is
\* rejected as oversized.
C9_CheckOrder ==
  vres # Undefined =>
    IF vfile = Null THEN vres = [isValid |-> FALSE, error |-> <<"No file provided">>]
    ELSE IF vfile.size > maxSizeOf(venv)
      THEN ~vres.isValid /\ vres.error[1] = SizeReason
    ELSE IF Unregistered(vfile.mimetype)
      THEN ~vres.isValid /\ vres.error[1] = TypeReason
    ELSE vres = [isValid |-> TRUE]

\* C10: a job with a missing file fails with the validator's reason
\* 'No file provided', in a single call and as an entry of a batch.
C10_MissingFileReason ==
  /\ \A c \in Callers :
       (job[c].pc # "idle" /\ job[c].file = Null) =>
         /\ job[c].pc = "thrown"
         /\ job[c].error = wrap(Error(<<"No file provided">>))
  /\ \A i \in 1..Len(batch.log) :
       batch.files[i] = Null =>
         \E k \in 1..Len(batch.errors) :
           batch.errors[k].error = wrap(Error(<<"No file provided">>)).message

\* the jobs that have started on a file
Started == {c \in Callers : job[c].pc # "idle" /\ job[c].file # Null}

\* the number of times a call or fault occurs in a trace
Count(t, e) == Cardinality({i \in 1..Len(t) : t[i] = e})

\* C11: a mime type that validateFile accepts is matched by one of the four
\* branches of extractText, which never throws 'Unsupported file type' for it.
C11_AcceptedIsDispatched ==
  \A c \in Started :
    job[c].validation.isValid =>
      /\ category(toLowerCase(job[c].file.mimetype)) # "none"
      /\ job[c].pc = "thrown" => job[c].error.message[2] # TypeReason

C12_Witness ==
  /\ job["single"].pc = "returned"
  /\ Count(job["single"].trace, "pdf-parse:fault") = 1
  /\ job["single"].result.extractedText = <<>>

\* C12: when pdf-parse faults, extraction does not fail: the result is
\* {text: "", confidence: 0, pages: 0} tagged ocr-fallback, the upload is
\* started, and the job can only fail through the upload.
C12_PdfFaultFallsBack ==
  \A c \in Started :
    Count(job[c].trace, "pdf-parse:fault") > 0 =>
      /\ job[c].extractionResult =
           [text |-> <<>>, confidence |-> 0, pages |-> 0,
            metadata |-> [extractionMethod |-> "ocr-fallback"]]
      /\ "extract" \in job[c].done
      /\ Count(job[c].trace, "uploadFile") = 1
      /\ job[c].pc \in {"upload", "returned", "thrown"}
      /\ job[c].pc = "thrown" => Count(job[c].trace, "uploadFile:fault") = 1

\* C13: every extraction result and every ProcessedDocument carries a
\* method tag, and the tag is that of the OCR fallback exactly when
\* pdf-parse faulted.
C13_MethodTagOnEveryResult ==
  \A c \in Started :
    /\ job[c].extractionResult # Undefined =>
         /\ "extractionMethod" \in DOMAIN job[c].extractionResult.metadata
         /\ (job[c].extractionResult.metadata.extractionMethod = "ocr-fallback")
              <=> (Count(job[c].trace, "pdf-parse:fault") > 0)
    /\ job[c].result # Undefined =>
         "extractionMethod" \in DOMAIN job[c].result.metadata

C14_Witness ==
  /\ job["batch"].pc = "returned"
  /\ Count(job["batch"].trace, "sharp:fault") = 1
  /\ job["batch"].ocrInput = job["batch"].file.buffer

\* C14: an image job calls sharp before analyzeDocument and calls
\* analyzeDocument exactly once; after a fault of sharp the bytes given to
\* analyzeDocument are the original ones, and the job then fails only if
\* analyzeDocument or the upload fails.
C14_PreprocessThenOcrOnce ==
  \A c \in Started :
    LET t == job[c].trace
    IN /\ \A i \in 1..Len(t) :
            t[i] = "analyzeDocument" => \E k \in 1..(i - 1) : t[k] = "sharp"
       /\ Count(t, "analyzeDocument") <= 1
       /\ (Count(t, "sharp") = 1 /\ job[c].pc # "optimize") =>
            Count(t, "analyzeDocument") = 1
       /\ Count(t, "sharp:fault") > 0 =>
            /\ job[c].ocrInput = job[c].file.buffer
            /\ job[c].pc = "thrown" =>
                 Count(t, "analyzeDocument:fault") + Count(t, "uploadFile:fault") = 1

\* the cause of an extractor fault, when the job has had one
ExtractorFaults ==
  [c \in Callers |->
     IF Count(job[c].trace, "mammoth:fault") > 0 THEN <<"mammoth fault">>
     ELSE IF Count(job[c].trace, "analyzeDocument:fault") > 0 THEN <<"vision fault">>
     ELSE <<>>]

UploadFailed ==
  {i \in 1..Len(batch.log) : batch.log[i] = {"validate", "extract"}}

C16_Witness ==
  /\ batch.pc = "returned"
  /\ UploadFailed # {}
  /\ batch.ret.successful # <<>>

\* C16: a job whose upload fails after a successful extraction ends thrown
\* with no ProcessedDocument and an error that holds no extracted text; in
\* a batch its file is in failed and not in successful.
C16_UploadFailureFailsJob ==
  /\ \A c \in Started :
       Count(job[c].trace, "uploadFile:fault") > 0 =>
         /\ "extract" \in job[c].done
         /\ job[c].pc = "thrown"
         /\ job[c].result = Undefined
         /\ job[c].error =
              [name |-> "Error",
               message |-> <<"Document processing failed: ", "storage fault">>]
  /\ \A i \in UploadFailed :
       \E k \in 1..Len(batch.errors) :
         /\ batch.errors[k].fileName = batch.files[i].originalname
         /\ batch.errors[k].error = <<"Document processing failed: ", "storage fault">>
  /\ Len(batch.results) = Cardinality(Succeeded)

C19_Witness ==
  /\ job["batch"].pc = "returned"
  /\ job["batch"].result.confidence = 87
  /\ batch.results # <<>>

\* C19: the confidence of every extraction result and of every
\* ProcessedDocument lies in [0, 1] (0..100 hundredths).
C19_ConfidenceInRange ==
  /\ \A c \in Started :
       /\ job[c].extractionResult # Undefined =>
            /\ job[c].extractionResult.confidence >= 0
            /\ job[c].extractionResult.confidence <= 100
       /\ job[c].result # Undefined =>
            /\ job[c].result.confidence >= 0
            /\ job[c].result.confidence <= 100
  /\ \A i \in 1..Len(batch.results) :
       /\ batch.results[i].confidence >= 0
       /\ batch.results[i].confidence <= 100

\* well-formed UTF-8 over one- and two-byte sequences
RECURSIVE ValidUtf8(_)
ValidUtf8(b) ==
  IF b = <<>> THEN TRUE
  ELSE IF Head(b) <= 127 THEN ValidUtf8(Tail(b))
  ELSE /\ Head(b) \in 194..223
       /\ Len(b) >= 2
       /\ b[2] \in 128..191
       /\ ValidUtf8(Tail(Tail(b)))

\* C17: a text buffer with an invalid UTF-8 sequence gives confidence 0.9,
\* an encoding other than UTF-8 and a non-empty text.
C17_InvalidUtf8FallsBack ==
  (tres # Undefined /\ ~ValidUtf8(tbuf)) =>
    /\ tres.confidence = 90
    /\ tres.encoding # "UTF-8"
    /\ tres.text # <<>>
    /\ tdoc.confidence = 90
    /\ tdoc.metadata.encoding # "UTF-8"

C18_Witness ==
  /\ tdoc # Undefined
  /\ tbuf = <<97, 195, 169>>
  /\ tdoc.extractedText = <<97, 233>>

\* C18: a clean UTF-8 text buffer gives confidence 1.0 and encoding "UTF-8"
\* in the extraction result and in the ProcessedDocument.
C18_CleanUtf8 ==
  (tres # Undefined /\ ValidUtf8(tbuf)) =>
    /\ tres.confidence = 100
    /\ tres.encoding = "UTF-8"
    /\ tdoc.confidence = 100
    /\ tdoc.metadata.encoding = "UTF-8"

\* the positions of a text where a token starts: a character that is no
\* white space at the start of the text or after a white-space character
TokenStarts(text) ==
  {i \in 1..Len(text) :
     /\ text[i] \notin {9, 10, 11, 12, 13, 32}
     /\ (i = 1 \/ text[i - 1] \in {9, 10, 11, 12, 13, 32})}

C20_Witness ==
  /\ tdoc # Undefined
  /\ tdoc.extractedText = <<97, 32, 32, 97, 9, 97>>
  /\ tdoc.wordCount = 3

\* C20: wordCount is the number of non-empty white-space-delimited tokens of
\* extractedText: 0 for an empty or blank text, one per token however long
\* the runs of spaces and tabs between tokens.
C20_WordCount ==
  tdoc # Undefined =>
    /\ tdoc.wordCount = Cardinality(TokenStarts(tdoc.extractedText))
    /\ (\A i \in 1..Len(tdoc.extractedText) : tdoc.extractedText[i] \in {9, 32})
         => tdoc.wordCount = 0

\* the tokens detectLanguage scores: the first 100 lower-case tokens
LangTokens ==
  LET all == splitWords(toLowerCaseText(ltext))
  IN {i \in 1..Len(all) : i <= WordLimit}

\* how many of those tokens are stop words of a language
StopWordScore(lang) ==
  LET all == splitWords(toLowerCaseText(ltext))
  IN Cardinality({i \in LangTokens :
                    \E k \in 1..Len(commonWords[lang]) : commonWords[lang][k] = all[i]})

\* C21: the language tag is the language whose stop words score highest over
\* the first 100 lower-case tokens, and it is English on a tie for the
\* highest score and when no stop word matched (the empty text included).
C21_HighestScoreElseEnglish ==
  llang # Undefined =>
    LET best == {l \in {"en", "es", "fr"} :
                   \A m \in {"en", "es", "fr"} : StopWordScore(m) <= StopWordScore(l)}
    IN IF Cardinality(best) = 1 /\ (\E l \in best : StopWordScore(l) > 0)
         THEN llang.language \in best
       ELSE llang.language = "en"

\* the ProcessedDocuments that exist in a state: those collected by the
\* batch and those just returned by a job
Documents ==
  batch.results
    \o (IF job["batch"].pc = "returned" THEN <<job["batch"].result>> ELSE <<>>)
    \o (IF job["single"].pc = "returned" THEN <<job["single"].result>> ELSE <<>>)

C22_Witness ==
  /\ batch.pc = "returned"
  /\ Len(batch.ret.successful) = 2
  /\ Len(batch.ret.failed) = 1
  /\ batch.ret.successful[1].documentId + 1 < batch.ret.successful[2].documentId

\* C22: every job gets a fresh documentId: no two ProcessedDocuments carry
\* the same documentId, and every id carried by a document or taken by a job
\* (a failed one too) lies below the next id to be issued, so that no later
\* call can get it again.
C22_FreshDocumentId ==
  /\ \A i, k \in 1..Len(Documents) :
       i # k => Documents[i].documentId # Documents[k].documentId
  /\ \A i \in 1..Len(Documents) : Documents[i].documentId < nextId
  /\ \A c \in Callers : job[c].pc # "idle" => job[c].documentId < nextId

C23_Witness ==
  /\ sret # Undefined
  /\ sret.seen = "thrown"
  /\ sret.reply.status = "completed"

\* C23: every reply of getProcessingStatus carries the id asked about with
\* status completed, progress 100 and estimatedTimeRemaining 0, whatever the
\* history of that id: never issued, job running, job failed, job returned;
\* so the progress reported never decreases and the status never changes.
C23_StatusAlwaysCompleted ==
  sret # Undefined =>
    /\ sret.seen \in {"never issued", "settled", "pdf", "word", "optimize", "ocr",
                      "text", "upload", "returned", "thrown"}
    /\ sret.reply.documentId = sret.query
    /\ sret.reply.status = "completed"
    /\ sret.reply.progress = 100
    /\ sret.reply.estimatedTimeRemaining = 0

InFlight == {"pdf", "word", "optimize", "ocr", "text", "upload"}

\* what a job that was waiting has made of its own file and of the reply
OwnOutcome(j, k) ==
  /\ k.file = j.file
  /\ k.documentId = j.documentId
  /\ k.validation = j.validation
  /\ k.pc \in InFlight \cup {"returned", "thrown"}
  /\ j.pc = "upload" => k.extractionResult = j.extractionResult
  /\ k.pc = "returned" =>
       /\ k.result.originalName = j.file.originalname
       /\ k.result.mimeType = j.file.mimetype
       /\ k.result.extractedText = j.extractionResult.text
       /\ k.result.confidence = j.extractionResult.confidence
       /\ k.result.pages = pagesOrOne(j.extractionResult)
       /\ k.result.wordCount = countWords(j.extractionResult.text)

C24_Witness ==
  /\ job["single"].pc = "upload"
  /\ job["batch"].pc = "ocr"
  /\ job["single"].documentId > job["batch"].documentId

\* C24: overlapping processDocument calls share no mutable state: a step of
\* one call leaves the other call's state as it was, and what a call makes
\* of a reply depends on its own file and its own extraction result only, so
\* its outcome is the one of a run on its own with the same replies.
C24_NoSharedState ==
  [][\A c \in Callers :
       job'[c] # job[c] =>
         /\ \A d \in Callers \ {c} : job'[d] = job[d]
         /\ job[c].pc \in InFlight => OwnOutcome(job[c], job'[c])]_vars

\* the external call of the batch's current job never completes
BatchHung == batch.pc = "await" /\ job["batch"].pc = "hung"

\* C25: when the external call of one job of a batch never completes, every
\* other job of the batch still gets its outcome recorded at some time.
C25_HangDoesNotBlock ==
  [](BatchHung => <>(Len(batch.log) >= Len(batch.files) - 1))

\* C26: the size limit is the one read at startup: all the jobs of a process
\* are validated against the same maxSizeBytes, so two submissions of the
\* same file in one batch both pass validation or both fail it, also when
\* MAX_FILE_SIZE_MB is changed between the two.
C26_SameLimitForEveryJob ==
  \A i, k \in 1..Len(batch.log) :
    batch.files[i] = batch.files[k] =>
      ("validate" \in batch.log[i] <=> "validate" \in batch.log[k])

\* the first call of each extractor
ExtractorCalls == {"pdf-parse", "mammoth", "sharp", "toString"}

\* the positions of the calls of a set in a trace
Positions(t, calls) == {i \in 1..Len(t) : t[i] \in calls}

C27_Witness ==
  /\ job["batch"].pc = "returned"
  /\ job["batch"].trace = <<"validateFile", "sharp", "analyzeDocument", "uploadFile">>

\* C27: in one processDocument call validation, extraction, upload and
\* assembly happen in this order and at most once each: the upload is
\* started only after validation and extraction have succeeded, a document
\* is assembled only after the upload has succeeded, and a call whose
\* validation fails calls no extractor, no preprocessor, no OCR, no upload.
C27_StepsInOrder ==
  \A c \in {d \in Callers : job[d].pc # "idle"} :
    LET t == job[c].trace
        v == Positions(t, {"validateFile"})
        x == Positions(t, ExtractorCalls)
        u == Positions(t, {"uploadFile"})
    IN /\ Cardinality(v) <= 1 /\ Cardinality(x) <= 1 /\ Cardinality(u) <= 1
       /\ \A i \in x : \E k \in v : k < i
       /\ \A i \in u : \E k \in x : k < i
       /\ u # {} => {"validate", "extract"} \subseteq job[c].done
       /\ x # {} => "validate" \in job[c].done
       /\ job[c].pc = "returned" => (u # {} /\ job[c].done = Stages)
       /\ (job[c].validation # Undefined /\ ~job[c].validation.isValid) =>
            (t = <<"validateFile">> /\ job[c].pc = "thrown")

\* the extractors of the SUPPORTED_TYPES entries that validateFile's test
\* (equal to the entry, or starting with it) matches for a mime type
MatchedCategories(m) ==
  {IF k = "doc" THEN "word" ELSE k :
     k \in {k \in {"pdf", "doc", "image", "text"} :
              \E i \in 1..Len(SUPPORTED_TYPES[k]) :
                SUPPORTED_TYPES[k][i] = m \/ startsWith(m, SUPPORTED_TYPES[k][i])}}

\* C28: for a mime type that validateFile accepts, the extractor that
\* extractText calls is the one of the category of the SUPPORTED_TYPES entry
\* the type matched: whenever an extractor is called, validator and
\* dispatcher agree on the category.
C28_ValidatorAndDispatcherAgree ==
  (vcall # Undefined /\ vcall.branch # "none") =>
    vcall.branch \in MatchedCategories(vfile.mimetype)

C29_Witness ==
  /\ job["batch"].pc = "returned"
  /\ job["batch"].extractionResult.pages = 0
  /\ job["batch"].extractionResult.metadata.extractionMethod = "ocr-fallback"
  /\ job["batch"].result.pages = 1

\* C29: the pages of every ProcessedDocument is at least 1: the page count
\* of the extractor when that is positive, and 1 when the extractor reports
\* 0 pages (empty text, empty Word document, PDF OCR fallback).
C29_PagesAtLeastOne ==
  /\ \A i \in 1..Len(Documents) : Documents[i].pages >= 1
  /\ \A c \in Callers :
       job[c].pc = "returned" =>
         LET reported == job[c].extractionResult.pages
         IN /\ reported > 0 => job[c].result.pages = reported
            /\ reported = 0 => job[c].result.pages = 1

\* the k-th smallest element of a set of indices
Nth(S, k) == CHOOSE i \in S : Cardinality({j \in S : j <= i}) = k

C30_Witness ==
  /\ batch.pc = "returned"
  /\ Len(batch.ret.successful) = 2
  /\ Len(batch.ret.failed) = 1
  /\ batch.ret.successful[1].originalName # batch.ret.successful[2].originalName
  /\ batch.ret.failed[1].fileName = batch.files[1].originalname

\* C30: processDocuments handles one file at a time in submission order: the
\* job in flight is the one of file i and the outcomes recorded are those of
\* the files before i; so the entries of successful, and those of failed,
\* are in the order in which their files were submitted.
C30_OneAtATimeInOrder ==
  /\ batch.pc = "await" =>
       /\ Len(batch.log) = batch.i - 1
       /\ job["batch"].pc # "idle"
       /\ job["batch"].file = batch.files[batch.i]
  /\ batch.pc = "returned" =>
       LET ok == Succeeded
           ko == (1..Len(batch.log)) \ Succeeded
       IN /\ Len(batch.ret.successful) = Cardinality(ok)
          /\ Len(batch.ret.failed) = Cardinality(ko)
          /\ \A k \in 1..Cardinality(ok) :
               batch.ret.successful[k].originalName
                 = batch.files[Nth(ok, k)].originalname
          /\ \A k \in 1..Cardinality(ko) :
               batch.ret.failed[k].fileName = batch.files[Nth(ko, k)].originalname
          /\ \A k \in 1..(Len(batch.ret.successful) - 1) :
               batch.ret.successful[k].documentId
                 < batch.ret.successful[k + 1].documentId

====
